---- MODULE Spec2Model ----
(***************************************************************************)
(* Model of @mechanize/base: the command line parser (parse / parse1 /     *)
(* cmd and the option and argument constructors, run), the promise pool    *)
(* (pool / Deferred) and the WorkerManager.                                *)
(*                                                                         *)
(* parse1 is a loop over a token queue that recurses into subcommands; the *)
(* model runs it one loop iteration per step on a stack of frames, one     *)
(* frame per active call of parse1.                                        *)
(***************************************************************************)
EXTENDS Integers, Sequences, FiniteSets, TLC

VARIABLES
  root,      \* the command passed to parse (an id of CmdDef)
  env,       \* process.env restricted to the variables the options name
  argv,      \* the tokens util.parseArgs produced (kept to state the claims)
  tokens,    \* the token queue parse1 consumes from the front
  stack,     \* the active calls of parse1, the root call first
  pc,        \* "parse" | "parsed" | "error" | "help", then in run():
             \* "action" | "done" | "exited"
  result,    \* the CmdResult returned by the root parse1, once parsed
  err,       \* the CommandLineError thrown, once thrown
  help,      \* what printHelp was called with before process.exit(0)
  log,       \* history: what each consumed token was used for
  out,       \* what console.log has written, in order
  exit,      \* the code process.exit was called with, once called
  calls,     \* the invocations of command actions by runAction, in order
  \* pool(size)
  capacity,  \* the argument of pool, kept as the `size` property of the Pool
  made,      \* "no" | "pool" | "threw": what the call of pool did
  size,      \* the local `size` of pool: the number of free slots
  slot,      \* the local `slot` of pool: the Deferred it refers to
  completed, \* the Deferreds that are completed
  runs,      \* per call of run: where it is, what it awaits, f's outcome
  threw,     \* slot.resolve() has thrown "promise already completed"
  \* WorkerManager
  lastId,    \* this._id
  worker,    \* this._worker: 0 for null, else the index of the worker promise
  waiting,   \* this._waiting: id -> the Deferred of the submit that set it
  workers,   \* what create has returned so far, with the state of each worker
  jobs,      \* the promise reactions ready to run, in order (microtask queue)
  submits,   \* per call of submit: its id, its Deferred, the worker it awaits
  orphans,   \* the ids for which onmessage threw "orphaned result"
  terms      \* the calls of terminate: made, completed, and the ids dropped

cliVars == <<root, env, argv, tokens, stack, pc, result, err, help, log,
             out, exit, calls>>

poolVars == <<capacity, made, size, slot, completed, runs, threw>>

wmVars == <<lastId, worker, waiting, workers, jobs, submits, orphans, terms>>

\* the variables of the other components, per component
notCli == <<poolVars, wmVars>>
notPool == <<cliVars, wmVars>>
notWm == <<cliVars, poolVars>>

vars == <<cliVars, poolVars, wmVars>>

(***************************************************************************)
(* undefined / null is the empty sequence, a present value x is <<x>>.     *)
(***************************************************************************)
None == <<>>
Some(x) == <<x>>

(***************************************************************************)
(* Runtime values.  A user supplied action (optionAnd, argAnd) is an       *)
(* arbitrary function of the string; it is kept as the uninterpreted       *)
(* application fn(s), which is never null and never equal to a string.     *)
(***************************************************************************)
StrV(s) == [str |-> s]
BoolV(b) == [bool |-> b]
ListV(q) == [list |-> q]
FnV(s) == [fn |-> s]

(***************************************************************************)
(* Option and argument constructors.                                       *)
(***************************************************************************)
option(name, shortName, envName, default) ==
  [type |-> "Opt", name |-> name, shortName |-> shortName, env |-> envName,
   default |-> default, action |-> "string"]

optionAnd(name, shortName, envName, default) ==
  [type |-> "Opt", name |-> name, shortName |-> shortName, env |-> envName,
   default |-> default, action |-> "fn"]

optionFlag(name, shortName, envName) ==
  [type |-> "Opt", name |-> name, shortName |-> shortName, env |-> envName,
   default |-> None, action |-> "boolean"]

optionRepeating(opt) == [type |-> "OptionRepeating", opt |-> opt]

arg(docv) == [type |-> "Arg", docv |-> docv, action |-> "string"]

argAnd(docv) == [type |-> "Arg", docv |-> docv, action |-> "fn"]

argRepeating(a) == [type |-> "RepeatingArg", arg |-> a]

argOptional(a, defaultValue) ==
  [type |-> "OptionalArg", arg |-> a, default |-> defaultValue]

defaultHelpOption == optionFlag("help", Some("h"), None)

HasKey(optseq, key) == \E i \in 1..Len(optseq) : optseq[i].key = key

\* cmd(): the help flag is added under the key "help" unless one is declared.
cmd(spec) ==
  IF HasKey(spec.opts, "help") THEN spec
  ELSE [spec EXCEPT !.opts = Append(@, [key |-> "help", opt |-> defaultHelpOption])]

(***************************************************************************)
(* The command definitions the model is run on.  `opts` lists the entries  *)
(* of the opts object in declaration order, `cmds` maps a subcommand name  *)
(* to the id of its definition.                                            *)
(***************************************************************************)
CmdIds == {"app", "serve", "build", "tool", "copy", "run", "pack"}

CmdDef(id) ==
  CASE id = "app" ->
         cmd([name |-> "app", args |-> <<>>, argsRest |-> None,
              opts |-> << [key |-> "port",
                           opt |-> option("port", Some("p"), Some("PORT"), Some("80"))],
                          [key |-> "verbose",
                           opt |-> optionFlag("verbose", Some("v"), Some("VERBOSE"))] >>,
              cmds |-> Some([build |-> "build", serve |-> "serve"])])
    [] id = "serve" ->
         cmd([name |-> "serve", args |-> <<>>, argsRest |-> None,
              opts |-> << [key |-> "port",
                           opt |-> option("port", None, None, None)],
                          [key |-> "host",
                           opt |-> option("host", None, None, Some("h0"))],
                          [key |-> "level",
                           opt |-> optionAnd("level", Some("l"), Some("LEVEL"), None)] >>,
              cmds |-> Some([build |-> "build"])])
    [] id = "build" ->
         cmd([name |-> "build", args |-> <<arg("SRC")>>,
              argsRest |-> Some(argOptional(argAnd("DST"), Some("d"))),
              opts |-> << [key |-> "dryRun",
                           opt |-> optionFlag("dry-run", None, None)] >>,
              cmds |-> Some([serve |-> "serve"])])
    [] id = "tool" ->
         cmd([name |-> "tool", args |-> <<>>,
              argsRest |-> Some(argRepeating(arg("FILE"))),
              opts |-> << [key |-> "tag",
                           opt |-> optionRepeating(
                                     option("tag", Some("t"), Some("TAG"), None))],
                          [key |-> "inc",
                           opt |-> optionRepeating(
                                     optionAnd("inc", Some("i"), None, None))],
                          [key |-> "level",
                           opt |-> optionAnd("level", Some("l"), Some("LEVEL"), Some("1"))],
                          [key |-> "quiet",
                           opt |-> optionFlag("quiet", Some("q"), None)] >>,
              cmds |-> Some([serve |-> "serve"])])
    [] id = "copy" ->
         cmd([name |-> "copy", args |-> <<arg("SRC"), argAnd("DST")>>,
              argsRest |-> None,
              opts |-> <<>>,
              cmds |-> None])
    [] id = "run" ->
         cmd([name |-> "run", args |-> <<argAnd("CMD")>>,
              argsRest |-> Some(argOptional(arg("MODE"), None)),
              opts |-> <<>>,
              cmds |-> None])
    [] id = "pack" ->
         cmd([name |-> "pack", args |-> <<arg("OUT")>>,
              argsRest |-> Some(argRepeating(argAnd("IN"))),
              opts |-> << [key |-> "level",
                           opt |-> optionAnd("level", Some("l"), None, None)] >>,
              cmds |-> None])

Cmds == [id \in CmdIds |-> CmdDef(id)]

(***************************************************************************)
(* parse1: the locals of one call.                                         *)
(***************************************************************************)
RECURSIVE BuildOpts(_, _)
\* opts[key] = {key, opt}; opts[opt.shortName] = {key, opt} when the entry
\* itself has a shortName: an OptionRepeating wrapper has none of its own.
ShortNameOf(opt) == IF opt.type = "Opt" THEN opt.shortName ELSE None

BuildOpts(optseq, acc) ==
  IF optseq = <<>> THEN acc
  ELSE LET e == Head(optseq)
           withKey == (e.key :> e) @@ acc
           withShort == IF ShortNameOf(e.opt) # None
                        THEN (ShortNameOf(e.opt)[1] :> e) @@ withKey
                        ELSE withKey
       IN BuildOpts(Tail(optseq), withShort)

EmptyMap == [x \in {} |-> None]

OptLookup(id) == BuildOpts(Cmds[id].opts, EmptyMap)

\* one lookup for all levels: every command sees every command's options
Opts_AllLevels ==
  LET all == BuildOpts(Cmds["app"].opts \o Cmds["serve"].opts \o Cmds["build"].opts
                         \o Cmds["tool"].opts \o Cmds["copy"].opts
                         \o Cmds["run"].opts \o Cmds["pack"].opts, EmptyMap)
  IN [id \in CmdIds |-> OptLookup(id) @@ all]

\* the local `opts` of parse1, per command
Opts == [id \in CmdIds |-> OptLookup(id)]

RECURSIVE OptNameSeq(_)
\* the property names of `opts` in insertion order (the order of for..in)
OptNameSeq(optseq) ==
  IF optseq = <<>> THEN <<>>
  ELSE LET e == Head(optseq)
       IN <<e.key>> \o ShortNameOf(e.opt) \o OptNameSeq(Tail(optseq))

\* the call entered with a path of its own command only
NewFrame_OwnPath(id, path, calledAs) ==
  [cmd |-> id, cmds |-> <<id>>, calledAs |-> calledAs,
   args |-> Cmds[id].args,
   optsValues |-> EmptyMap, argsValues |-> <<>>, next |-> None]

\* The state of parse1(cmd, cmds, tokens) on entry; calledAs is the token
\* text that selected it (None for the root).  The locals `opts` and
\* `argsRest` are never assigned again: they are Opts[cmd] and
\* Cmds[cmd].argsRest.
NewFrame(id, path, calledAs) ==
  [cmd |-> id, cmds |-> path, calledAs |-> calledAs,
   args |-> Cmds[id].args,
   optsValues |-> EmptyMap, argsValues |-> <<>>, next |-> None]

IsSet(optsValues, key) == key \in DOMAIN optsValues

addOptValue(optsValues, opt, key, value) ==
  IF opt.type = "OptionRepeating"
  THEN \* existing = optsValues[key] ?? []; existing.push(value): a fresh
       \* array is pushed to and dropped, one already stored is extended
       IF IsSet(optsValues, key) /\ "list" \in DOMAIN optsValues[key]
       THEN [optsValues EXCEPT ![key] = ListV(Append(@.list, value))]
       ELSE optsValues
  ELSE (key :> value) @@ optsValues

\* the string kept as it is, the action not called
ApplyAction_NotCalled(action, s) == StrV(s)

ApplyAction(action, s) == IF action = "string" THEN StrV(s) ELSE FnV(s)

\* addArgValue with unshift for push
addArgValue_Unshift(argsValues, a, s) == <<ApplyAction(a.action, s)>> \o argsValues

addArgValue(argsValues, a, s) == Append(argsValues, ApplyAction(a.action, s))

RECURSIVE JoinNames(_)
\* cmds.map((cmd) => cmd.name).join(" ")
JoinNames(path) ==
  IF path = <<>> THEN ""
  ELSE IF Len(path) = 1 THEN Cmds[path[1]].name
  ELSE Cmds[path[1]].name \o " " \o JoinNames(Tail(path))

\* the error tagged with the root command only
CommandLineError_RootOnly(path, msg) == [cmds |-> <<path[1]>>, msg |-> msg]

CommandLineError(path, msg) == [cmds |-> path, msg |-> msg]

(***************************************************************************)
(* Tokens of util.parseArgs({tokens: true, strict: false}).                *)
(***************************************************************************)
OptTok(name, value) == [kind |-> "option", name |-> name, value |-> value]
PosTok(s) == [kind |-> "positional", name |-> "", value |-> Some(s)]
TermTok == [kind |-> "option-terminator", name |-> "", value |-> None]

\* Ok with one more tokens.shift()
Ok_ShiftTwice(fr, toks) ==
  [kind |-> "ok", frame |-> fr,
   tokens |-> IF toks = <<>> THEN toks ELSE Tail(toks),
   err |-> None, call |-> None]

\* The outcome of one iteration of the while loop of parse1.
Ok(fr, toks) ==
  [kind |-> "ok", frame |-> fr, tokens |-> toks, err |-> None, call |-> None]
Throw(fr, toks, e) ==
  [kind |-> "error", frame |-> fr, tokens |-> toks, err |-> Some(e), call |-> None]
Exit0(fr, toks) ==
  [kind |-> "help", frame |-> fr, tokens |-> toks, err |-> None, call |-> None]
\* Call without the tokens.shift() of the subcommand name
Call_NoShift(fr, toks, id, name) ==
  [kind |-> "call", frame |-> fr, tokens |-> <<PosTok(name)>> \o toks, err |-> None,
   call |-> Some(NewFrame(id, Append(fr.cmds, id), Some(name)))]

Call(fr, toks, id, name) ==
  [kind |-> "call", frame |-> fr, tokens |-> toks, err |-> None,
   call |-> Some(NewFrame(id, Append(fr.cmds, id), Some(name)))]

\* OptionStep taking the next token as the value whatever its kind
OptionStep_NextOfAnyKind(fr, toks) ==
  LET tok == Head(toks)
      rest == Tail(toks)
      opts == Opts[fr.cmd]
  IN IF tok.name \notin DOMAIN opts
     THEN Throw(fr, rest, CommandLineError(fr.cmds, "unknown option --" \o tok.name))
     ELSE
       LET maybeOpt == opts[tok.name].opt
           key == opts[tok.name].key
           opt == IF maybeOpt.type = "OptionRepeating" THEN maybeOpt.opt ELSE maybeOpt
           set(value) == [fr EXCEPT !.optsValues = addOptValue(@, maybeOpt, key, value)]
           text(t) == IF t.kind = "positional" THEN t.value[1] ELSE t.name
       IN IF opt.action = "boolean" /\ opt.name = "help" THEN Exit0(fr, rest)
          ELSE IF opt.action = "boolean" THEN Ok(set(BoolV(TRUE)), rest)
          ELSE IF tok.value # None THEN Ok(set(StrV(tok.value[1])), rest)
          ELSE IF rest = <<>>
          THEN Throw(fr, rest,
                     CommandLineError(fr.cmds, "missing value for option --" \o opt.name))
          ELSE Ok(set(ApplyAction(opt.action, text(Head(rest)))), Tail(rest))

\* case "option"
OptionStep(fr, toks) ==
  LET tok == Head(toks)
      rest == Tail(toks)
      opts == Opts[fr.cmd]
  IN IF tok.name \notin DOMAIN opts
     THEN Throw(fr, rest, CommandLineError(fr.cmds, "unknown option --" \o tok.name))
     ELSE
       LET maybeOpt == opts[tok.name].opt
           key == opts[tok.name].key
           opt == IF maybeOpt.type = "OptionRepeating" THEN maybeOpt.opt ELSE maybeOpt
           set(value) == [fr EXCEPT !.optsValues = addOptValue(@, maybeOpt, key, value)]
       IN IF opt.action = "boolean" /\ opt.name = "help" THEN Exit0(fr, rest)
          ELSE IF opt.action = "boolean" THEN Ok(set(BoolV(TRUE)), rest)
          ELSE IF tok.value # None THEN Ok(set(StrV(tok.value[1])), rest)
          ELSE IF rest = <<>> \/ Head(rest).kind # "positional"
          THEN Throw(fr, rest,
                     CommandLineError(fr.cmds, "missing value for option --" \o opt.name))
          ELSE Ok(set(ApplyAction(opt.action, Head(rest).value[1])), Tail(rest))

\* PositionalStep with the subcommand lookup tried first
PositionalStep_DispatchFirst(fr, toks) ==
  LET tok == Head(toks)
      rest == Tail(toks)
      c == Cmds[fr.cmd]
      argsRest == c.argsRest
      bind(a) == [fr EXCEPT !.argsValues = addArgValue(@, a, tok.value[1])]
  IN IF c.cmds # None /\ tok.value[1] \in DOMAIN c.cmds[1]
     THEN Call(fr, rest, c.cmds[1][tok.value[1]], tok.value[1])
     ELSE IF Len(fr.args) > 0
     THEN Ok([bind(Head(fr.args)) EXCEPT !.args = Tail(@)], rest)
     ELSE IF argsRest # None
     THEN Ok(bind(argsRest[1].arg), rest)
     ELSE IF c.cmds = None
     THEN Throw(fr, toks, CommandLineError(fr.cmds, "extra position argument"))
     ELSE Throw(fr, toks,
                CommandLineError(fr.cmds, "unknown subcommand " \o tok.value[1]))

\* case "positional"
PositionalStep(fr, toks) ==
  LET tok == Head(toks)
      rest == Tail(toks)
      c == Cmds[fr.cmd]
      argsRest == c.argsRest
      bind(a) == [fr EXCEPT !.argsValues = addArgValue(@, a, tok.value[1])]
  IN IF Len(fr.args) > 0
     THEN Ok([bind(Head(fr.args)) EXCEPT !.args = Tail(@)], rest)
     ELSE IF argsRest # None
     THEN IF argsRest[1].type = "RepeatingArg"
          THEN Ok(bind(argsRest[1].arg), rest)
          ELSE \* OptionalArg
               IF Len(fr.args) = 0
               THEN Ok(bind(argsRest[1].arg), rest)
               ELSE Throw(fr, toks, CommandLineError(fr.cmds, "extra position argument"))
     ELSE IF c.cmds = None
     THEN Throw(fr, toks, CommandLineError(fr.cmds, "extra position argument"))
     ELSE IF tok.value[1] \notin DOMAIN c.cmds[1]
     THEN Throw(fr, toks,
                CommandLineError(fr.cmds, "unknown subcommand " \o tok.value[1]))
     ELSE Call(fr, rest, c.cmds[1][tok.value[1]], tok.value[1])

\* the terminator shifted and skipped
TerminatorStep_Skip(fr, toks) == Ok(fr, Tail(toks))

\* case "option-terminator"
TerminatorStep(fr, toks) == Throw(fr, toks, CommandLineError(fr.cmds, "TODO"))

(***************************************************************************)
(* After the loop: the missing argument check, the default of an optional  *)
(* rest argument, and "Add missing options".                               *)
(***************************************************************************)
\* the value compared as it is, toLowerCase() left out
toLowerCase_Omitted(s) == s

\* String.prototype.toLowerCase on the values the environment takes here
toLowerCase(s) ==
  CASE s = "OFF" -> "off"
    [] s = "No" -> "no"
    [] s = "False" -> "false"
    [] s = "YES" -> "yes"
    [] OTHER -> s

\* process.env[name]
GetEnv(name) == env[name]

\* AddMissing with the default looked at before the environment
AddMissing_DefaultFirst(optsValues, e) ==
  LET opt == e.opt
      key == e.key
  IN IF IsSet(optsValues, key) THEN optsValues
     ELSE IF opt.type = "OptionRepeating"
     THEN IF opt.opt.env # None THEN optsValues
          ELSE (key :> ListV(<<>>)) @@ optsValues
     ELSE IF opt.action = "boolean"
     THEN IF opt.env # None
          THEN LET got == GetEnv(opt.env[1])
                   envval == toLowerCase(IF got # None THEN got[1] ELSE "false")
               IN (key :> BoolV(envval # "no" /\ envval # "off"
                                /\ envval # "0" /\ envval # "false")) @@ optsValues
          ELSE (key :> BoolV(FALSE)) @@ optsValues
     ELSE LET fromDefault == IF opt.default # None
                             THEN addOptValue(optsValues, opt, key, StrV(opt.default[1]))
                             ELSE optsValues
              envval == IF opt.env # None THEN GetEnv(opt.env[1]) ELSE None
          IN IF ~IsSet(fromDefault, key) /\ envval # None
             THEN addOptValue(fromDefault, opt, key, StrV(envval[1]))
             ELSE fromDefault

\* the body of `for (let name in opts)` for one property of opts
AddMissing(optsValues, e) ==
  LET opt == e.opt
      key == e.key
  IN IF IsSet(optsValues, key) THEN optsValues
     ELSE IF opt.type = "OptionRepeating"
     THEN IF opt.opt.env # None
          THEN LET envval == GetEnv(opt.opt.env[1])
               IN IF envval # None
                  THEN addOptValue(optsValues, opt, key, StrV(envval[1]))
                  ELSE optsValues
          ELSE (key :> ListV(<<>>)) @@ optsValues
     ELSE IF opt.action = "boolean"
     THEN IF opt.env # None
          THEN LET got == GetEnv(opt.env[1])
                   envval == toLowerCase(IF got # None THEN got[1] ELSE "false")
               IN (key :> BoolV(envval # "no" /\ envval # "off"
                                /\ envval # "0" /\ envval # "false")) @@ optsValues
          ELSE (key :> BoolV(FALSE)) @@ optsValues
     ELSE LET envval == IF opt.env # None THEN GetEnv(opt.env[1]) ELSE None
              fromEnv == IF envval # None
                         THEN addOptValue(optsValues, opt, key, StrV(envval[1]))
                         ELSE optsValues
          IN IF ~IsSet(fromEnv, key) /\ opt.default # None
             THEN addOptValue(fromEnv, opt, key, StrV(opt.default[1]))
             ELSE fromEnv

RECURSIVE AddMissingAll(_, _, _)
AddMissingAll(optsValues, opts, names) ==
  IF names = <<>> THEN optsValues
  ELSE AddMissingAll(AddMissing(optsValues, opts[Head(names)]), opts, Tail(names))

\* the default stored as it is, not through the argument's action
WithRestDefault_Raw(fr) ==
  LET c == Cmds[fr.cmd]
      argsRest == c.argsRest
  IN IF /\ argsRest # None
        /\ argsRest[1].type = "OptionalArg"
        /\ Len(c.args) = Len(fr.argsValues)
        /\ argsRest[1].default # None
     THEN Append(fr.argsValues, StrV(argsRest[1].default[1]))
     ELSE fr.argsValues

\* the default of an unfilled optional rest argument
WithRestDefault(fr) ==
  LET c == Cmds[fr.cmd]
      argsRest == c.argsRest
  IN IF /\ argsRest # None
        /\ argsRest[1].type = "OptionalArg"
        /\ Len(c.args) = Len(fr.argsValues)
        /\ argsRest[1].default # None
     THEN addArgValue(fr.argsValues, argsRest[1].arg, argsRest[1].default[1])
     ELSE fr.argsValues

CmdResult(fr) ==
  [cmd |-> fr.cmd, cmds |-> fr.cmds,
   opts |-> AddMissingAll(fr.optsValues, Opts[fr.cmd], OptNameSeq(Cmds[fr.cmd].opts)),
   args |-> WithRestDefault(fr),
   next |-> fr.next]

\* PostLoop naming the first declared argument, cmd.args[0]
PostLoop_FirstDeclared(fr) ==
  IF Len(fr.args) > 0
  THEN [kind |-> "error",
        err |-> Some(CommandLineError(fr.cmds,
                       "missing " \o Cmds[fr.cmd].args[1].docv \o " argument")),
        res |-> None]
  ELSE [kind |-> "return", err |-> None, res |-> Some(CmdResult(fr))]

\* what parse1 does once tokens is empty: throw, or return its CmdResult
PostLoop(fr) ==
  IF Len(fr.args) > 0
  THEN [kind |-> "error",
        err |-> Some(CommandLineError(fr.cmds,
                       "missing " \o fr.args[1].docv \o " argument")),
        res |-> None]
  ELSE [kind |-> "return", err |-> None, res |-> Some(CmdResult(fr))]

(***************************************************************************)
(* What is written to stdout.                                              *)
(***************************************************************************)
RECURSIVE JoinDocv(_)
\* args.map((arg) => arg.docv).join(" "); every argument here has a docv
JoinDocv(args) ==
  IF args = <<>> THEN ""
  ELSE IF Len(args) = 1 THEN args[1].docv
  ELSE args[1].docv \o " " \o JoinDocv(Tail(args))

\* ppUsage(cmd, name); a command of CmdDef with no required argument is one
\* defined without `args`
ppUsage(id, name) ==
  LET c == Cmds[id]
      u0 == "usage: " \o name \o " [OPTIONS]"
      u1 == IF c.cmds # None /\ DOMAIN c.cmds[1] # {} THEN u0 \o " COMMAND" ELSE u0
      u2 == IF c.args # <<>> THEN u1 \o " " \o JoinDocv(c.args) ELSE u1
  IN IF c.argsRest = None THEN u2
     ELSE IF c.argsRest[1].type = "RepeatingArg"
     THEN u2 \o " " \o c.argsRest[1].arg.docv \o "..."
     ELSE u2 \o " [" \o c.argsRest[1].arg.docv \o "]"

\* one console.log of a string
Line(s) == [line |-> s]

\* the help titled with the command's own name, the path left out
HelpDoc_OwnName(id, name) == [help |-> id, usage |-> ppUsage(id, Cmds[id].name)]

\* console.log(pp.render(width, ppHelp(cmd, name))): the help document of
\* the command, which starts with its usage line
HelpDoc(id, name) == [help |-> id, usage |-> ppUsage(id, name)]

(***************************************************************************)
(* The steps.                                                              *)
(***************************************************************************)
Top == stack[Len(stack)]

Event(o) ==
  [depth |-> Len(stack), cmd |-> Top.cmd, tok |-> Head(tokens),
   took |-> Len(tokens) - Len(o.tokens), outcome |-> o.kind,
   val |-> IF Len(tokens) - Len(o.tokens) = 2 THEN tokens[2].value
           ELSE Head(tokens).value]

\* one iteration of the while loop of the innermost active parse1
Iterate(o) ==
  /\ tokens' = o.tokens
  /\ log' = Append(log, Event(o))
  /\ CASE o.kind = "ok" ->
            /\ stack' = [stack EXCEPT ![Len(stack)] = o.frame]
            /\ UNCHANGED <<pc, err, help>>
       [] o.kind = "call" ->
            /\ stack' = Append([stack EXCEPT ![Len(stack)] = o.frame], o.call[1])
            /\ UNCHANGED <<pc, err, help>>
       [] o.kind = "error" ->
            /\ pc' = "error"
            /\ err' = o.err
            /\ UNCHANGED <<stack, help>>
       [] o.kind = "help" ->
            \* printHelp(cmd, name); process.exit(0)
            /\ pc' = "help"
            /\ help' = Some([cmd |-> o.frame.cmd, name |-> JoinNames(o.frame.cmds)])
            /\ UNCHANGED <<stack, err>>
  /\ IF o.kind = "help"
     THEN /\ out' = Append(out, HelpDoc(o.frame.cmd, JoinNames(o.frame.cmds)))
          /\ exit' = Some(0)
     ELSE UNCHANGED <<out, exit>>
  /\ UNCHANGED <<root, env, argv, result, calls>>
  /\ UNCHANGED notCli

OptionToken ==
  /\ pc = "parse" /\ tokens # <<>> /\ Head(tokens).kind = "option"
  /\ Iterate(OptionStep(Top, tokens))

PositionalToken ==
  /\ pc = "parse" /\ tokens # <<>> /\ Head(tokens).kind = "positional"
  /\ Iterate(PositionalStep(Top, tokens))

OptionTerminator ==
  /\ pc = "parse" /\ tokens # <<>> /\ Head(tokens).kind = "option-terminator"
  /\ Iterate(TerminatorStep(Top, tokens))

\* the innermost active parse1 leaves its loop: it throws or returns, and
\* the caller stores the result as its `next`
Return ==
  /\ pc = "parse" /\ tokens = <<>>
  /\ LET o == PostLoop(Top)
         n == Len(stack)
     IN IF o.kind = "error"
        THEN /\ pc' = "error"
             /\ err' = o.err
             /\ UNCHANGED <<stack, result>>
        ELSE IF n = 1
        THEN /\ pc' = "parsed"
             /\ result' = o.res
             /\ stack' = <<>>
             /\ UNCHANGED err
        ELSE /\ stack' = [SubSeq(stack, 1, n - 1) EXCEPT ![n - 1].next =
                             Some([name |-> Top.calledAs[1]] @@ o.res[1])]
             /\ UNCHANGED <<pc, result, err>>
  /\ UNCHANGED <<root, env, argv, tokens, help, log, out, exit, calls>>
  /\ UNCHANGED notCli

Next == OptionToken \/ PositionalToken \/ OptionTerminator \/ Return

(***************************************************************************)
(* run(argv, cmd): parse, then report the error or run the action.         *)
(***************************************************************************)
\* the root result taken, `next` not followed
Deepest_Root(res) == res

RECURSIVE Deepest(_)
\* while (res.next != null) res = res.next
Deepest(res) == IF res.next = None THEN res ELSE Deepest(res.next[1])

\* what an action can throw: a UserError (error(msg)) or anything else
UserError(msg) == [user |-> TRUE, message |-> msg]
OtherError(msg) == [user |-> FALSE, message |-> msg]
Thrown == {UserError("bad input"), OtherError("boom")}

\* catch (err) of parse: CommandLineError.  printUsage logs the usage line
\* and returns nothing, and its result is logged as well.
ReportCommandLineError ==
  /\ pc = "error"
  /\ LET e == err[1]
         name == JoinNames(e.cmds)
     IN out' = out \o << Line(ppUsage(e.cmds[Len(e.cmds)], name)),
                         Line("undefined"),
                         Line("error: " \o e.msg) >>
  /\ exit' = Some(1)
  /\ pc' = "exited"
  /\ UNCHANGED <<root, env, argv, tokens, stack, result, err, help, log, calls>>
  /\ UNCHANGED notCli

\* runAction(res.cmd.name, res.cmd, res) on the deepest result
RunAction ==
  /\ pc = "parsed"
  /\ LET res == Deepest(result[1])
     IN calls' = Append(calls, [cmd |-> res.cmd, name |-> Cmds[res.cmd].name,
                                 opts |-> res.opts, args |-> res.args])
  /\ pc' = "action"
  /\ UNCHANGED <<root, env, argv, tokens, stack, result, err, help, log, out, exit>>
  /\ UNCHANGED notCli

\* the awaited action completes: run returns
ActionReturns ==
  /\ pc = "action"
  /\ pc' = "done"
  /\ UNCHANGED <<root, env, argv, tokens, stack, result, err, help, log,
                 out, exit, calls>>
  /\ UNCHANGED notCli

\* every error logged as it is, a UserError included
Caught_AlwaysLogged(e) == [logged |-> e]

\* the action throws or rejects: the outer catch of run
Caught(e) ==
  IF e.user THEN Line("error: " \o e.message) ELSE [logged |-> e]

ActionThrows ==
  /\ pc = "action"
  /\ \E e \in Thrown : out' = Append(out, Caught(e))
  /\ exit' = Some(1)
  /\ pc' = "exited"
  /\ UNCHANGED <<root, env, argv, tokens, stack, result, err, help, log, calls>>
  /\ UNCHANGED notCli

NextRun ==
  \/ Next
  \/ ReportCommandLineError
  \/ RunAction
  \/ ActionReturns
  \/ ActionThrows

(***************************************************************************)
(* pool(size): run(f) is an async function, so each action below is one    *)
(* run of it from where it was suspended to its next await or its end.     *)
(***************************************************************************)
MaxCalls == 3
MaxSize == 2

\* the calls of run made on the pool
Calls == 1..MaxCalls

\* a call of run not made yet
NotCalled == [pc |-> "idle", on |-> 0, outcome |-> None, ret |-> None]

\* the pool not created
NoPool ==
  /\ capacity = 0 /\ made = "no" /\ size = 0 /\ slot = 0
  /\ completed = {} /\ runs = [c \in Calls |-> NotCalled] /\ threw = FALSE

\* pool(size): throws for size <= 0, else slot = deferred()
Pool ==
  /\ made = "no"
  /\ IF size <= 0
     THEN made' = "threw" /\ UNCHANGED slot
     ELSE made' = "pool" /\ slot' = 1
  /\ UNCHANGED <<capacity, size, completed, runs, threw>>
  /\ UNCHANGED notPool

\* slot never replaced
Refreshed_Never(free, current) == current

\* if (size === 0) slot = deferred(), after size = size - 1
Refreshed(free, current) == IF free = 0 THEN current + 1 ELSE current

\* the slot freed by a fulfilled task only
Released_OnFulfilOnly(c, free, current, outcome) ==
  IF outcome # "fulfilled"
  THEN /\ size' = free
       /\ UNCHANGED <<completed, threw>>
       /\ runs' = [runs EXCEPT ![c] = [pc |-> "done", on |-> 0,
                                        outcome |-> Some(outcome),
                                        ret |-> Some(outcome)]]
  ELSE /\ size' = free + 1
       /\ completed' = IF free = 0 THEN completed \cup {current} ELSE completed
       /\ UNCHANGED threw
       /\ runs' = [runs EXCEPT ![c] = [pc |-> "done", on |-> 0,
                                        outcome |-> Some(outcome),
                                        ret |-> Some(outcome)]]

\* finally: if (size === 0) slot.resolve(); size = size + 1, then the
\* promise of run settles as f did.  A resolve() of a completed Deferred
\* throws out of the finally block.
Released(c, free, current, outcome) ==
  IF free = 0 /\ current \in completed
  THEN /\ threw' = TRUE
       /\ UNCHANGED <<size, completed>>
       /\ runs' = [runs EXCEPT ![c] = [pc |-> "done", on |-> 0,
                                        outcome |-> Some(outcome),
                                        ret |-> Some("promise already completed")]]
  ELSE /\ size' = free + 1
       /\ completed' = IF free = 0 THEN completed \cup {current} ELSE completed
       /\ UNCHANGED threw
       /\ runs' = [runs EXCEPT ![c] = [pc |-> "done", on |-> 0,
                                        outcome |-> Some(outcome),
                                        ret |-> Some(outcome)]]

\* size = size - 1; refresh the slot; try { return await f() }: f returns a
\* promise that is awaited, or throws, which runs the finally block at once
Take(c) ==
  LET free == size - 1
      current == Refreshed(free, slot)
  IN /\ slot' = current
     /\ \/ /\ size' = free
           /\ runs' = [runs EXCEPT ![c].pc = "running", ![c].on = 0]
           /\ UNCHANGED <<completed, threw>>
        \/ Released(c, free, current, "thrown")

\* while (size === 0) await slot; then take a slot
Enter(c) ==
  IF size = 0
  THEN /\ runs' = [runs EXCEPT ![c].pc = "waiting", ![c].on = slot]
       /\ UNCHANGED <<size, slot, completed, threw>>
  ELSE Take(c)

\* the woken call takes a slot without testing size again
Resume_NoRecheck(c) == Take(c)

\* after await slot the loop tests size again
Resume(c) == Enter(c)

\* run(f) is called
PoolRun ==
  /\ made = "pool"
  /\ \E c \in Calls :
       /\ runs[c].pc = "idle"
       /\ Enter(c)
  /\ UNCHANGED <<capacity, made>>
  /\ UNCHANGED notPool

\* the Deferred a call awaits is completed: the call goes on in its loop
WakeOf(c) ==
  /\ runs[c].pc = "waiting" /\ runs[c].on \in completed
  /\ Resume(c)
  /\ UNCHANGED <<capacity, made>>
  /\ UNCHANGED notPool

Wake == \E c \in Calls : WakeOf(c)

\* the promise f returned settles
SettleOf(c) ==
  /\ runs[c].pc = "running"
  /\ \E o \in {"fulfilled", "rejected"} :
       runs' = [runs EXCEPT ![c].pc = "settled", ![c].outcome = Some(o)]
  /\ UNCHANGED <<capacity, made, size, slot, completed, threw>>
  /\ UNCHANGED notPool

Settle == \E c \in Calls : SettleOf(c)

\* await f() goes on: the finally block, then run settles
FinallyOf(c) ==
  /\ runs[c].pc = "settled"
  /\ Released(c, size, slot, runs[c].outcome[1])
  /\ UNCHANGED <<capacity, made, slot>>
  /\ UNCHANGED notPool

Finally == \E c \in Calls : FinallyOf(c)

NextPool == Pool \/ PoolRun \/ Wake \/ Settle \/ Finally

(***************************************************************************)
(* WorkerManager.  submit and terminate are async functions: what follows  *)
(* their await is a reaction of the worker promise, run from the microtask *)
(* queue in the order the reactions were added.                            *)
(***************************************************************************)
MaxSubmits == 3
MaxTerminates == 2

\* new WorkerManager(create)
NoWm ==
  /\ lastId = 0 /\ worker = 0 /\ waiting = <<>> /\ workers = <<>>
  /\ jobs = <<>> /\ submits = <<>> /\ orphans = {}
  /\ terms = [made |-> 0, completed |-> 0, dropped |-> {}]

\* reactions: worker.onmessage = this.onmessage; postMessage([id, ...]);
\* the rest of terminate
Install(w) == [do |-> "install", w |-> w, id |-> 0]
Post(w, id) == [do |-> "post", w |-> w, id |-> id]
Terminated(w) == [do |-> "terminate", w |-> w, id |-> 0]

\* the reaction put in front of the ones added before
Reacting_First(q, r) == <<r>> \o q

\* promise.then(r): r is added after the reactions added before
Reacting(q, r) == Append(q, r)

\* promise.then(r) on worker promise w: r waits for the promise, or is
\* ready to run when the promise is fulfilled already
Then(ws, js, w, r) ==
  IF ws[w].ready
  THEN [workers |-> ws, jobs |-> Reacting(js, r)]
  ELSE [workers |-> [ws EXCEPT ![w].reactions = Reacting(@, r)], jobs |-> js]

\* a worker promise is made whatever this._worker is
IsNull_Always(w) == TRUE

\* this._worker == null
IsNull(w) == w = 0

\* get worker(): create the worker promise when there is none, and add the
\* reaction that installs onmessage.  create returns a Worker (the promise
\* is fulfilled at once) or a promise of one.
Worker(ready) ==
  IF IsNull(worker)
  THEN LET w == Len(workers) + 1
           created == Append(workers, [promised |-> ~ready,
                                       ready |-> ready, reactions |-> <<>>,
                                    onmessage |-> FALSE, terminated |-> FALSE,
                                    inbox |-> <<>>, replied |-> {}])
       IN [w |-> w] @@ Then(created, jobs, w, Install(w))
  ELSE [w |-> worker, workers |-> workers, jobs |-> jobs]

\* the id taken from the number of waiting requests
NextId_FromWaiting(last) == Cardinality(DOMAIN waiting) + 1

\* this._id += 1
NextId(last) == last + 1

\* submit(...): up to await this.worker
Submit ==
  /\ Len(submits) < MaxSubmits
  /\ \E ready \in BOOLEAN :
       LET id == NextId(lastId)
           n == Len(submits) + 1
           got == Worker(ready)
           awaited == Then(got.workers, got.jobs, got.w, Post(got.w, id))
       IN /\ lastId' = id
          /\ waiting' = (id :> n) @@ waiting
          /\ worker' = got.w
          /\ workers' = awaited.workers
          /\ jobs' = awaited.jobs
          /\ submits' = Append(submits, [id |-> id, w |-> got.w, resolved |-> 0,
                                          after |-> terms.completed,
                                          during |-> terms.made > terms.completed])
  /\ UNCHANGED <<orphans, terms>>
  /\ UNCHANGED notWm

\* terminate(): up to await this._worker, or to its end when there is no
\* worker
Terminate ==
  /\ terms.made < MaxTerminates
  /\ IF worker # 0
     THEN LET awaited == Then(workers, jobs, worker, Terminated(worker))
          IN /\ workers' = awaited.workers
             /\ jobs' = awaited.jobs
             /\ terms' = [terms EXCEPT !.made = @ + 1]
             /\ UNCHANGED waiting
     ELSE /\ waiting' = <<>>
          /\ terms' = [made |-> terms.made + 1,
                       completed |-> terms.completed + 1,
                       dropped |-> terms.dropped \cup DOMAIN waiting]
          /\ UNCHANGED <<workers, jobs>>
  /\ UNCHANGED <<lastId, worker, submits, orphans>>
  /\ UNCHANGED notWm

\* the promise create returned is fulfilled: its reactions are ready to run
WorkerReady ==
  /\ \E w \in 1..Len(workers) :
       /\ ~workers[w].ready
       /\ workers' = [workers EXCEPT ![w].ready = TRUE, ![w].reactions = <<>>]
       /\ jobs' = jobs \o workers[w].reactions
  /\ UNCHANGED <<lastId, worker, waiting, submits, orphans, terms>>
  /\ UNCHANGED notWm

\* the first ready reaction runs
Job ==
  /\ jobs # <<>>
  /\ jobs' = Tail(jobs)
  /\ LET j == Head(jobs)
     IN CASE j.do = "install" ->
               /\ workers' = [workers EXCEPT ![j.w].onmessage = TRUE]
               /\ UNCHANGED <<worker, waiting, terms>>
          [] j.do = "post" ->
               /\ workers' = [workers EXCEPT ![j.w].inbox = Append(@, j.id)]
               /\ UNCHANGED <<worker, waiting, terms>>
          [] j.do = "terminate" ->
               \* worker.terminate(); this._worker = null; this._waiting.clear()
               /\ workers' = [workers EXCEPT ![j.w].terminated = TRUE]
               /\ worker' = 0
               /\ waiting' = <<>>
               /\ terms' = [terms EXCEPT !.completed = @ + 1,
                                         !.dropped = @ \cup DOMAIN waiting]
  /\ UNCHANGED <<lastId, submits, orphans>>
  /\ UNCHANGED notWm

\* a worker answers a request it was posted: the message event of [id,
\* result] is dispatched on the worker once no reaction is ready, and runs
\* onmessage when it is installed
Reply ==
  /\ jobs = <<>>
  /\ \E w \in 1..Len(workers) : \E i \in 1..Len(workers[w].inbox) :
       LET id == workers[w].inbox[i]
       IN /\ ~workers[w].terminated
          /\ i \notin workers[w].replied
          /\ workers' = [workers EXCEPT ![w].replied = @ \cup {i}]
          /\ IF ~workers[w].onmessage
             THEN UNCHANGED <<waiting, submits, orphans>>
             ELSE IF id \notin DOMAIN waiting
             THEN /\ orphans' = orphans \cup {id}
                  /\ UNCHANGED <<waiting, submits>>
             ELSE /\ waiting' = [x \in DOMAIN waiting \ {id} |-> waiting[x]]
                  /\ submits' = [submits EXCEPT ![waiting[id]].resolved = @ + 1]
                  /\ UNCHANGED orphans
  /\ UNCHANGED <<lastId, worker, jobs, terms>>
  /\ UNCHANGED notWm

NextWm == Submit \/ Terminate \/ WorkerReady \/ Job \/ Reply

(***************************************************************************)
(* Inputs.                                                                 *)
(***************************************************************************)
MaxTokens == 3

\* what the tokenizer can produce: after `--` every token is a positional
TokenizerShape(q) ==
  \A i, j \in 1..Len(q) :
    (i < j /\ q[i].kind = "option-terminator") => q[j].kind = "positional"

TokenSeqs(alphabet) ==
  {q \in UNION {[1..n -> alphabet] : n \in 0..MaxTokens} : TokenizerShape(q)}

EnvVars == {"PORT", "LEVEL", "TAG", "VERBOSE"}

NoEnv == [v \in EnvVars |-> None]

InitWith(roots, alphabet, envs) ==
  /\ root \in roots
  /\ env \in envs
  /\ argv \in TokenSeqs(alphabet)
  /\ tokens = argv
  /\ stack = <<NewFrame(root, <<root>>, None)>>
  /\ pc = "parse"
  /\ result = None
  /\ err = None
  /\ help = None
  /\ log = <<>>
  /\ out = <<>>
  /\ exit = None
  /\ calls = <<>>
  /\ NoPool
  /\ NoWm

\* a mix of every kind of token, on every command
Alphabet ==
  {PosTok("serve"), PosTok("build"), PosTok("x"),
   OptTok("port", None), OptTok("port", Some("y")), OptTok("v", None),
   OptTok("help", None), TermTok}

Envs == {NoEnv, [NoEnv EXCEPT !["PORT"] = Some("e"), !["VERBOSE"] = Some("OFF")]}

Init == InitWith(CmdIds, Alphabet, Envs)

Spec == Init /\ [][Next]_vars

\* run() on the same inputs, with "-h" added
RunAlphabet == Alphabet \cup {OptTok("h", None)}

InitRun == InitWith(CmdIds, RunAlphabet, Envs)

SpecRun == InitRun /\ [][NextRun]_vars

\* repeating options, on the command that declares them
RepeatAlphabet ==
  {OptTok("tag", None), OptTok("tag", Some("a")), OptTok("tag", Some("b")),
   OptTok("t", None), OptTok("inc", Some("a")), OptTok("i", Some("b")),
   OptTok("help", None), PosTok("a"), PosTok("serve"), TermTok}

RepeatEnvs == {NoEnv, [NoEnv EXCEPT !["TAG"] = Some("e")]}

InitRepeat == InitWith({"tool"}, RepeatAlphabet, RepeatEnvs)

SpecRepeat == InitRepeat /\ [][Next]_vars

\* value options (string and computed), with and without env and default
ValueAlphabet ==
  {OptTok("port", None), OptTok("port", Some("y")), OptTok("p", None),
   OptTok("level", None), OptTok("level", Some("y")), OptTok("host", Some("x")),
   OptTok("help", None), PosTok("x"), PosTok("serve"), TermTok}

ValueEnvs ==
  {[NoEnv EXCEPT !["PORT"] = p, !["LEVEL"] = l] :
     p \in {None, Some("e")}, l \in {None, Some("e")}}

InitValue == InitWith({"app", "serve", "tool"}, ValueAlphabet, ValueEnvs)

SpecValue == InitValue /\ [][Next]_vars

\* flags, with the values the environment variable of one can take
FlagAlphabet ==
  {OptTok("verbose", None), OptTok("verbose", Some("no")), OptTok("v", None),
   OptTok("quiet", None), OptTok("dryRun", None), OptTok("dry-run", None),
   OptTok("help", None), PosTok("build"), TermTok}

FlagEnvValues == {"no", "off", "0", "false", "OFF", "No", "False", "yes", "YES", "1", ""}

FlagEnvs ==
  {NoEnv} \cup {[NoEnv EXCEPT !["VERBOSE"] = Some(v)] : v \in FlagEnvValues}

InitFlag == InitWith({"app", "tool"}, FlagAlphabet, FlagEnvs)

SpecFlag == InitFlag /\ [][Next]_vars

\* positionals for required and repeating rest arguments, among options
RestAlphabet ==
  {PosTok("a"), PosTok("b"), OptTok("level", None), OptTok("level", Some("y")),
   OptTok("quiet", None), OptTok("help", None), TermTok}

InitRest == InitWith({"tool", "pack"}, RestAlphabet, {NoEnv})

SpecRest == InitRest /\ [][Next]_vars

\* no command line being parsed
NoCli ==
  /\ root = "app" /\ env = NoEnv /\ argv = <<>> /\ tokens = <<>>
  /\ stack = <<>> /\ pc = "off" /\ result = None /\ err = None
  /\ help = None /\ log = <<>> /\ out = <<>> /\ exit = None /\ calls = <<>>

\* pool(size) is about to be called, with any size from -1 to MaxSize
InitPool ==
  /\ NoCli
  /\ capacity \in -1..MaxSize /\ size = capacity
  /\ made = "no" /\ slot = 0 /\ completed = {}
  /\ runs = [c \in Calls |-> NotCalled] /\ threw = FALSE
  /\ NoWm

SpecPool == InitPool /\ [][NextPool]_vars

\* a WorkerManager just constructed
InitWm == NoCli /\ NoPool /\ NoWm

SpecWm == InitWm /\ [][NextWm]_vars

\* the event loop runs every continuation that is ready, and every started
\* task settles
FairPool ==
  /\ SpecPool
  /\ \A c \in Calls : WF_vars(WakeOf(c)) /\ WF_vars(SettleOf(c)) /\ WF_vars(FinallyOf(c))

(***************************************************************************)
(* Vocabulary of the properties.                                           *)
(***************************************************************************)
RECURSIVE Chain(_)
\* the results of a chain, the root first
Chain(r) == IF r = None THEN <<>> ELSE <<r[1]>> \o Chain(r[1].next)

Levels == Chain(result)

InnerOpt(o) == IF o.type = "OptionRepeating" THEN o.opt ELSE o

\* the declared entries of a command, by key
Declared(id) == {Cmds[id].opts[i] : i \in 1..Len(Cmds[id].opts)}

\* the token name is the key, the name or the short name of the entry
Names(e) ==
  {e.key, InnerOpt(e.opt).name}
    \cup {InnerOpt(e.opt).shortName[i] : i \in 1..Len(InnerOpt(e.opt).shortName)}

\* the option tokens accepted at depth d that name entry e, in order
IsOccurrence(ev, d, e) ==
  /\ ev.depth = d /\ ev.tok.kind = "option" /\ ev.outcome = "ok"
  /\ ev.tok.name \in Names(e)

Occurrences(d, e) ==
  LET Test(ev) == IsOccurrence(ev, d, e) IN SelectSeq(log, Test)

\* the value one occurrence supplies: the string, through the action
Supplied(e, ev) == ApplyAction(InnerOpt(e.opt).action, ev.val[1])

SuppliedAll(e, occ) == [i \in 1..Len(occ) |-> Supplied(e, occ[i])]

\* C1: a repeating option given k >= 1 times at a level resolves to the
\* sequence of the k supplied values, in the order of occurrence.
C1_RepeatingInOrder ==
  pc = "parsed" =>
    \A d \in 1..Len(Levels) : \A e \in Declared(Levels[d].cmd) :
      (e.opt.type = "OptionRepeating" /\ Occurrences(d, e) # <<>>) =>
        /\ e.key \in DOMAIN Levels[d].opts
        /\ Levels[d].opts[e.key] = ListV(SuppliedAll(e, Occurrences(d, e)))

IsValueOpt(e) == e.opt.type = "Opt" /\ e.opt.action # "boolean"

\* the environment gives a value for the entry's option
EnvOf(e) == IF InnerOpt(e.opt).env = None THEN None ELSE env[InnerOpt(e.opt).env[1]]

\* value is the string s itself or, for a computed option, what the
\* option's action made of it
ComesFrom(value, e, s) ==
  IF e.opt.action = "string" THEN value = StrV(s) ELSE value \in {StrV(s), FnV(s)}

C3_TransformOfEnvOrDefault ==
  pc = "parsed" =>
    \A d \in 1..Len(Levels) : \A e \in Declared(Levels[d].cmd) :
      (IsValueOpt(e) /\ e.opt.action = "fn" /\ Occurrences(d, e) = <<>>) =>
        LET opts == Levels[d].opts
        IN IF EnvOf(e) # None
           THEN e.key \in DOMAIN opts /\ opts[e.key] = FnV(EnvOf(e)[1])
           ELSE e.opt.default # None =>
                  (e.key \in DOMAIN opts /\ opts[e.key] = FnV(e.opt.default[1]))

\* C4: a repeating option with no CLI occurrence resolves to the one
\* element sequence of its environment value when env is declared and
\* present, and to the empty sequence otherwise; its key is always set.
C4_RepeatingUnset ==
  pc = "parsed" =>
    \A d \in 1..Len(Levels) : \A e \in Declared(Levels[d].cmd) :
      (e.opt.type = "OptionRepeating" /\ Occurrences(d, e) = <<>>) =>
        /\ e.key \in DOMAIN Levels[d].opts
        /\ Levels[d].opts[e.key] =
             IF EnvOf(e) # None THEN ListV(<<StrV(EnvOf(e)[1])>>) ELSE ListV(<<>>)

\* the frames and results of levels that declare an optional rest argument
HasOptionalRest(id) ==
  Cmds[id].argsRest # None /\ Cmds[id].argsRest[1].type = "OptionalArg"

\* C5: a level with n required arguments and an optional rest argument
\* binds at most n+1 positionals: the (n+2)-th fails "extra position
\* argument", so neither a running level nor a result holds more.
C5_OptionalRestAtMostOne ==
  /\ \A i \in 1..Len(stack) :
       HasOptionalRest(stack[i].cmd) =>
         Len(stack[i].argsValues) <= Len(Cmds[stack[i].cmd].args) + 1
  /\ \A d \in 1..Len(Levels) :
       HasOptionalRest(Levels[d].cmd) =>
         Len(Levels[d].args) <= Len(Cmds[Levels[d].cmd].args) + 1

\* the declared entries of the running level that have the short name s
WithShortName(id, s) ==
  {e \in Declared(id) : InnerOpt(e.opt).shortName = Some(s)}

Renamed(toks, name) == <<[Head(toks) EXCEPT !.name = name]>> \o Tail(toks)

\* C6: an option token that carries the declared short name of an option
\* (repeating or not) has the effect of the token carrying its name: the
\* same key, the same value, and never "unknown option".
C6_ShortNameSameAsName ==
  [][(pc = "parse" /\ tokens # <<>> /\ Head(tokens).kind = "option") =>
       \A e \in WithShortName(Top.cmd, Head(tokens).name) :
         LET o == OptionStep(Top, Renamed(tokens, InnerOpt(e.opt).name))
         IN /\ tokens' = o.tokens
            /\ err' = o.err
            /\ (pc' = "error") = (o.kind = "error")
            /\ (pc' = "help") = (o.kind = "help")
            /\ o.kind = "ok" => stack' = [stack EXCEPT ![Len(stack)] = o.frame]
    ]_vars

\* the subcommands a command declares, by name
SubCmds(id) == IF Cmds[id].cmds = None THEN EmptyMap ELSE Cmds[id].cmds[1]

\* every name or short name under which the command declares an option
DeclaredNames(id) == UNION {Names(e) : e \in Declared(id)}

\* a positional token is at the front of a level that has no required
\* argument left and no rest argument, and names one of its subcommands
AtSubcommandToken ==
  /\ pc = "parse" /\ tokens # <<>> /\ Head(tokens).kind = "positional"
  /\ Top.args = <<>> /\ Cmds[Top.cmd].argsRest = None
  /\ Head(tokens).value[1] \in DOMAIN SubCmds(Top.cmd)

C7_Dispatches ==
  AtSubcommandToken =>
    LET n == Len(stack)
        sub == SubCmds(Top.cmd)[Head(tokens).value[1]]
    IN /\ Len(stack') = n + 1
       /\ SubSeq(stack', 1, n) = stack
       /\ stack'[n + 1].cmd = sub
       /\ stack'[n + 1].cmds = Append(Top.cmds, sub)
       /\ stack'[n + 1].optsValues = EmptyMap /\ stack'[n + 1].argsValues = <<>>
       /\ tokens' = Tail(tokens)
       /\ pc' = "parse"

C7_ChildOwnsTokens ==
  /\ \A i, j \in 1..Len(log) :
       (i < j /\ log[i].outcome = "call") => log[j].depth > log[i].depth
  /\ \A j \in 1..Len(log) :
       (log[j].tok.kind = "option" /\ log[j].tok.name \notin DeclaredNames(log[j].cmd))
         => /\ log[j].outcome = "error" /\ j = Len(log) /\ pc = "error"
            /\ err[1].msg = "unknown option --" \o log[j].tok.name
  /\ pc = "parsed" =>
       /\ Levels[Len(Levels)].next = None
       /\ \A d \in 1..(Len(Levels) - 1) :
            /\ Levels[d].next = Some(Levels[d + 1])
            /\ Levels[d + 1].name \in DOMAIN SubCmds(Levels[d].cmd)
            /\ Levels[d + 1].cmd = SubCmds(Levels[d].cmd)[Levels[d + 1].name]
       /\ Len(Levels) =
            1 + Len(SelectSeq(log, LAMBDA ev : ev.outcome = "call"))

SpecExample == <<PosTok("serve"), OptTok("port", None), PosTok("x")>>

C7_Example ==
  (root = "app" /\ argv = SpecExample /\ pc \notin {"parse"}) =>
    /\ pc = "parsed"
    /\ Len(Levels) = 2
    /\ Levels[2].cmd = "serve"
    /\ "port" \in DOMAIN Levels[2].opts /\ Levels[2].opts["port"] = StrV("x")

\* C7: a positional token that names a subcommand, at a level with no
\* required argument left and no rest argument, starts the resolution of
\* that subcommand: every later token is resolved by the subcommand (or its
\* own subcommands) against its own options only, the parent consumes
\* nothing more, the sub-result is the parent's `next`, and the chain ends
\* in a result whose `next` is null.
C7_SubcommandDispatch ==
  /\ [](C7_ChildOwnsTokens /\ C7_Example)
  /\ [][C7_Dispatches]_vars

\* C7 witness: ["serve", "--port", "x"] on app has been parsed into the
\* chain app -> serve with port = "x" at serve.
C7_Witness ==
  /\ root = "app" /\ argv = SpecExample /\ pc = "parsed"
  /\ Levels[2].cmd = "serve" /\ Levels[2].opts["port"] = StrV("x")
  /\ Levels[1].next # None /\ Levels[2].next = None

\* a positional token that names a subcommand of the running level is at
\* the front while a required argument is unfilled or a rest is declared
AtSubcommandNameAsArgument ==
  /\ pc = "parse" /\ tokens # <<>> /\ Head(tokens).kind = "positional"
  /\ Head(tokens).value[1] \in DOMAIN SubCmds(Top.cmd)
  /\ Top.args # <<>> \/ Cmds[Top.cmd].argsRest # None

C8_Binds ==
  AtSubcommandNameAsArgument =>
    LET n == Len(stack)
        a == IF Top.args # <<>> THEN Head(Top.args) ELSE Cmds[Top.cmd].argsRest[1].arg
    IN /\ Len(stack') = n
       /\ pc' = "parse"
       /\ tokens' = Tail(tokens)
       /\ stack'[n].argsValues =
            Append(Top.argsValues, ApplyAction(a.action, Head(tokens).value[1]))
       /\ stack'[n].next = None

C8_RestNeverDispatches ==
  /\ \A i \in 1..Len(stack) :
       Cmds[stack[i].cmd].argsRest # None => (i = Len(stack) /\ stack[i].next = None)
  /\ \A d \in 1..Len(Levels) :
       Cmds[Levels[d].cmd].argsRest # None => Levels[d].next = None

\* C8: a positional token equal to a subcommand name is bound as an
\* argument value, not dispatched, while a required argument is unfilled
\* or the command declares a rest argument; a level that declares a rest
\* argument never has a non-null `next`.
C8_ArgumentsBeforeSubcommands ==
  /\ []C8_RestNeverDispatches
  /\ [][C8_Binds]_vars

\* C8 witness: build (one required argument, an optional rest, subcommand
\* serve) has bound "serve" twice, as SRC and as the rest value.
C8_Witness ==
  /\ pc = "parsed" /\ root = "build"
  /\ Levels[1].args = <<StrV("serve"), FnV("serve")>>
  /\ Levels[1].next = None

IsFlag(e) ==
  e.opt.type = "Opt" /\ e.opt.action = "boolean" /\ e.opt.name # "help"

\* the values of FlagEnvValues that lower-case to no, off, 0 or false
FalseWords == {"no", "off", "0", "false", "OFF", "No", "False"}

\* C9: a flag other than help resolves to true when a CLI token for it
\* occurred; otherwise to false when env is not declared or the variable is
\* unset or its value lower-cased is no, off, 0 or false, and to true for
\* any other value; its key is always present.
C9_Flag ==
  pc = "parsed" =>
    \A d \in 1..Len(Levels) : \A e \in Declared(Levels[d].cmd) :
      IsFlag(e) =>
        /\ e.key \in DOMAIN Levels[d].opts
        /\ Levels[d].opts[e.key] =
             BoolV(IF Occurrences(d, e) # <<>> THEN TRUE
                   ELSE IF EnvOf(e) = None THEN FALSE
                   ELSE EnvOf(e)[1] \notin FalseWords)

\* C9 witness: a flag whose variable is set to "OFF" and that has no CLI
\* token has been resolved to false.
C9_Witness ==
  /\ pc = "parsed"
  /\ \E d \in 1..Len(Levels) : \E e \in Declared(Levels[d].cmd) :
       /\ IsFlag(e) /\ EnvOf(e) = Some("OFF") /\ Occurrences(d, e) = <<>>
       /\ Levels[d].opts[e.key] = BoolV(FALSE)

AllPositional(q) == \A i \in 1..Len(q) : q[i].kind = "positional"

\* exactly the required arguments of the root are supplied, and no option
ExactlyRequired ==
  AllPositional(argv) /\ Len(argv) = Len(Cmds[root].args)

SuppliedArgs ==
  [i \in 1..Len(argv) |-> ApplyAction(Cmds[root].args[i].action, argv[i].value[1])]

\* the default of the root's optional rest argument, through its action
RestDefault ==
  LET r == Cmds[root].argsRest
  IN IF r # None /\ r[1].type = "OptionalArg" /\ r[1].default # None
     THEN <<ApplyAction(r[1].arg.action, r[1].default[1])>>
     ELSE <<>>

\* C10, without the rest default: n positionals for n required arguments and no option
\* parse into exactly the supplied values, through each argument's action,
\* in order.
C10_Original ==
  (ExactlyRequired /\ pc # "parse") =>
    (pc = "parsed" /\ Levels[1].args = SuppliedArgs)

\* C10: n positionals for n required arguments and no option parse into
\* the supplied values, through each argument's action, in order, followed
\* by the default of the optional rest argument (through its action) when
\* the command declares one with a default.
C10_RequiredArgsInOrder ==
  (ExactlyRequired /\ pc # "parse") =>
    (pc = "parsed" /\ Levels[1].args = SuppliedArgs \o RestDefault)

\* C10 witness: copy SRC DST was given two different positionals, the
\* second through DST's action.
C10_Witness ==
  /\ pc = "parsed" /\ root = "copy" /\ ExactlyRequired
  /\ argv[1].value # argv[2].value
  /\ Levels[1].args = <<StrV(argv[1].value[1]), FnV(argv[2].value[1])>>

\* the level being resolved has consumed all tokens with fewer positionals
\* bound than it requires
AtEndWithArgumentsMissing ==
  /\ pc = "parse" /\ tokens = <<>>
  /\ Len(Top.argsValues) < Len(Cmds[Top.cmd].args)

\* the required argument after the ones already bound
FirstUnfilled == Cmds[Top.cmd].args[Len(Top.argsValues) + 1]

\* C11: a level that has consumed all tokens with fewer positionals bound
\* than it has required arguments fails with a CommandLineError that
\* carries the level's command path and the message "missing <docv>
\* argument" of the first unfilled required argument; no CmdResult is
\* produced, and every level of a CmdResult has its required arguments.
C11_MissingArgument ==
  /\ [](pc = "parsed" =>
         \A d \in 1..Len(Levels) :
           Len(Levels[d].args) >= Len(Cmds[Levels[d].cmd].args))
  /\ [][AtEndWithArgumentsMissing =>
         /\ pc' = "error"
         /\ err' = Some([cmds |-> Top.cmds,
                         msg |-> "missing " \o FirstUnfilled.docv \o " argument"])
         /\ result' = None]_vars

\* C11 witness: copy SRC DST given one positional has failed on DST.
C11_Witness ==
  /\ pc = "error" /\ root = "copy" /\ argv = <<PosTok("x")>>
  /\ err = Some([cmds |-> <<"copy">>, msg |-> "missing DST argument"])
  /\ result = None

\* the positionals bound at depth d, in order
Positionals(d) ==
  LET Test(ev) == ev.depth = d /\ ev.tok.kind = "positional" /\ ev.outcome = "ok"
  IN SelectSeq(log, Test)

\* C12: at a level with n required arguments and an optional rest argument,
\* a successful parse that bound exactly n positionals yields them followed
\* by the rest argument's action applied to its default, when it declares
\* one; with more positionals bound, or without a declared default, the
\* argument values are the bound positionals only.
C12_OptionalRestDefault ==
  pc = "parsed" =>
    \A d \in 1..Len(Levels) :
      HasOptionalRest(Levels[d].cmd) =>
        LET c == Cmds[Levels[d].cmd]
            n == Len(c.args)
            rest == c.argsRest[1]
            pos == Positionals(d)
            specOf(i) == IF i <= n THEN c.args[i] ELSE rest.arg
            bound == [i \in 1..Len(pos) |->
                        ApplyAction(specOf(i).action, pos[i].val[1])]
        IN Levels[d].args =
             IF Len(pos) = n /\ rest.default # None
             THEN Append(bound, ApplyAction(rest.arg.action, rest.default[1]))
             ELSE bound

\* C12 witness: build SRC [DST] given only SRC has DST's action applied to
\* the default "d".
C12_Witness ==
  /\ pc = "parsed"
  /\ \E d \in 1..Len(Levels) :
       /\ Levels[d].cmd = "build"
       /\ Len(Positionals(d)) = 1
       /\ Levels[d].args = <<StrV(Positionals(d)[1].val[1]), FnV("d")>>

\* every key and every short name under which the command declares an option
KeysAndShortNames(id) ==
  {e.key : e \in Declared(id)}
    \cup UNION {{InnerOpt(e.opt).shortName[i] : i \in 1..Len(InnerOpt(e.opt).shortName)} :
                  e \in Declared(id)}

\* an option token is at the front of a level that declares no option of
\* that name or short name
AtUndeclaredOption ==
  /\ pc = "parse" /\ tokens # <<>> /\ Head(tokens).kind = "option"
  /\ Head(tokens).name \notin KeysAndShortNames(Top.cmd)

AtUnexpectedPositional ==
  /\ pc = "parse" /\ tokens # <<>> /\ Head(tokens).kind = "positional"
  /\ Top.args = <<>> /\ Cmds[Top.cmd].argsRest = None
  /\ Head(tokens).value[1] \notin DOMAIN SubCmds(Top.cmd)

\* C14: such a token makes parsing fail with "extra position argument" when
\* the command declares no subcommands and with "unknown subcommand <token
\* text>" when it declares some; the error carries the current command
\* path, and the token is bound nowhere and stays in the queue.
C14_UnexpectedPositional ==
  [][AtUnexpectedPositional =>
       /\ pc' = "error"
       /\ err' = Some([cmds |-> Top.cmds,
                       msg |-> IF Cmds[Top.cmd].cmds = None
                               THEN "extra position argument"
                               ELSE "unknown subcommand " \o Head(tokens).value[1]])
       /\ stack' = stack /\ tokens' = tokens /\ result' = None]_vars

\* C14 witness: "x" has failed as a subcommand of serve under app, and is
\* still the first token.
C14_Witness ==
  /\ pc = "error"
  /\ err = Some([cmds |-> <<"app", "serve">>, msg |-> "unknown subcommand x"])
  /\ tokens # <<>> /\ Head(tokens) = PosTok("x")

\* the entry an option token resolves to at a level: by key, or by the
\* short name of an option that is not repeating
ResolvesTo(id, name) ==
  {e \in Declared(id) :
     name = e.key \/ (e.opt.type = "Opt" /\ Some(name) = e.opt.shortName)}

\* an option token without inline value that resolves to a non-boolean
\* option is at the front of the level being resolved
AtValueOptionWithoutValue ==
  /\ pc = "parse" /\ tokens # <<>> /\ Head(tokens).kind = "option"
  /\ Head(tokens).value = None
  /\ \E e \in ResolvesTo(Top.cmd, Head(tokens).name) :
       InnerOpt(e.opt).action # "boolean"

\* C15: a non-boolean option token without inline value takes the next
\* token as its value exactly when that token is positional (both tokens
\* leave the queue, and an option that is not repeating holds the value
\* through its action); otherwise parsing fails with "missing value for
\* option --<option name>" and the current command path.
C15_MissingValue ==
  [][AtValueOptionWithoutValue =>
       LET e == CHOOSE x \in ResolvesTo(Top.cmd, Head(tokens).name) : TRUE
           opt == InnerOpt(e.opt)
       IN IF Len(tokens) >= 2 /\ tokens[2].kind = "positional"
          THEN /\ pc' = "parse"
               /\ tokens' = Tail(Tail(tokens))
               /\ Len(stack') = Len(stack)
               /\ e.opt.type = "Opt" =>
                    stack'[Len(stack)].optsValues[e.key]
                      = ApplyAction(opt.action, tokens[2].value[1])
          ELSE /\ pc' = "error"
               /\ err' = Some([cmds |-> Top.cmds,
                               msg |-> "missing value for option --" \o opt.name])
               /\ result' = None]_vars

\* C15 witness: "-p" followed by another option token has failed as a
\* missing value of port.
C15_Witness ==
  /\ pc = "error" /\ log # <<>>
  /\ log[Len(log)].tok = OptTok("p", None)
  /\ err = Some([cmds |-> <<"app">>, msg |-> "missing value for option --port"])
  /\ tokens # <<>> /\ Head(tokens).kind = "option"

HasTerminator(q) == \E i \in 1..Len(q) : q[i].kind = "option-terminator"

\* C20: a token sequence that contains an option-terminator never yields a
\* CmdResult, the terminator and the tokens after it never leave the queue,
\* and the level that reaches the terminator fails with a CommandLineError
\* that carries the current command path.
C20_TerminatorIsAnError ==
  /\ [](HasTerminator(argv) =>
          /\ result = None /\ pc # "parsed"
          /\ HasTerminator(tokens))
  /\ [][(pc = "parse" /\ tokens # <<>> /\ Head(tokens).kind = "option-terminator") =>
          /\ pc' = "error"
          /\ err' # None /\ err'[1].cmds = Top.cmds
          /\ stack' = stack /\ tokens' = tokens /\ result' = None]_vars

\* C20 witness: the terminator has failed at serve under app with a
\* positional after it still in the queue.
C20_Witness ==
  /\ pc = "error"
  /\ err # None /\ err[1].cmds = <<"app", "serve">>
  /\ Len(tokens) = 2 /\ tokens[1] = TermTok /\ tokens[2].kind = "positional"

\* a token of the help option is at the front of the level being resolved
AtHelpToken ==
  /\ pc = "parse" /\ tokens # <<>> /\ Head(tokens).kind = "option"
  /\ Head(tokens).name \in {"help", "h"}

\* C16: a level that reaches "--help" or "-h" writes the help of that
\* level, titled with the names of the command path joined by spaces, and
\* the process exits with code 0; nothing else is written, no CmdResult is
\* returned, no action is invoked, no error is raised, and nothing happens
\* after it.
C16_HelpExits ==
  /\ [][AtHelpToken =>
          /\ pc' = "help"
          /\ out' = Append(out, [help |-> Top.cmd,
                                  usage |-> ppUsage(Top.cmd, JoinNames(Top.cmds))])
          /\ exit' = Some(0)]_vars
  /\ [](pc = "help" =>
          /\ Len(out) = 1 /\ exit = Some(0)
          /\ result = None /\ calls = <<>> /\ err = None)
  /\ [][pc # "help"]_vars

\* C16 witness: "-h" at build under app, with SRC unfilled and a terminator
\* after it, has written the help of "app build" and exited with 0.
C16_Witness ==
  /\ pc = "help" /\ root = "app"
  /\ argv = <<PosTok("build"), OptTok("h", None), TermTok>>
  /\ out = <<[help |-> "build", usage |-> "usage: app build [OPTIONS] COMMAND SRC [DST]"]>>
  /\ exit = Some(0) /\ result = None /\ calls = <<>>
  /\ tokens = <<TermTok>>

\* the call runAction makes for a level of the result chain
CallOf(level) == [cmd |-> level.cmd, opts |-> level.opts, args |-> level.args]

CallsMade == [i \in 1..Len(calls) |-> CallOf(calls[i])]

\* C17: after a successful parse run() invokes the action of the last level
\* of the result chain, once, with that level's options and arguments, and
\* invokes no other action; without a CmdResult no action is invoked.
C17_DeepestActionOnce ==
  /\ [](result = None => calls = <<>>)
  /\ [](pc = "parsed" => calls = <<>>)
  /\ [](pc \in {"action", "done", "exited"} /\ result # None =>
          CallsMade = <<CallOf(Levels[Len(Levels)])>>)
  /\ [][pc = "parsed" => pc' = "action"]_vars

\* C17 witness: serve under app has been invoked, once, with its own
\* options, which differ from app's, and has completed.
C17_Witness ==
  /\ pc = "done" /\ Len(Levels) = 2 /\ root = "app"
  /\ Len(calls) = 1 /\ calls[1].cmd = "serve"
  /\ calls[1].opts = Levels[2].opts /\ calls[1].opts # Levels[1].opts
  /\ "verbose" \in DOMAIN Levels[1].opts /\ "verbose" \notin DOMAIN calls[1].opts

\* C18: on a CommandLineError run() writes the usage line of the last
\* command of the error's path, titled with the names of the path joined by
\* spaces, then the line "error: <message>", and exits with a non-zero
\* code; no action is invoked.
C18_UsageThenError ==
  /\ [][pc = "error" =>
          /\ out' = out \o << [line |-> ppUsage(err[1].cmds[Len(err[1].cmds)],
                                                JoinNames(err[1].cmds))],
                               [line |-> "error: " \o err[1].msg] >>
          /\ exit' # None /\ exit'[1] # 0
          /\ calls' = <<>>]_vars
  /\ [](err # None => calls = <<>>)

ValidPath(path) ==
  /\ path # <<>> /\ path[1] = root
  /\ \A i \in 2..Len(path) :
       \E name \in DOMAIN SubCmds(path[i - 1]) :
         /\ SubCmds(path[i - 1])[name] = path[i]
         /\ \E k \in 1..Len(log) :
              /\ log[k].depth = i - 1 /\ log[k].outcome = "call"
              /\ log[k].tok = PosTok(name)

\* C21: the path of every CommandLineError is a valid path that ends with
\* the level being resolved when it was raised, and the path of the result
\* of every level of a result chain is a valid path that ends with that
\* level's command and is as long as the level is deep, the root counting
\* one.
C21_CommandPath ==
  /\ err # None =>
       /\ ValidPath(err[1].cmds)
       /\ Len(err[1].cmds) = Len(stack)
       /\ err[1].cmds[Len(stack)] = Top.cmd
  /\ \A d \in 1..Len(Levels) :
       /\ ValidPath(Levels[d].cmds)
       /\ Len(Levels[d].cmds) = d
       /\ Levels[d].cmds[d] = Levels[d].cmd

\* C21 witness: build under serve under app has been parsed.
C21_Witness ==
  /\ pc = "parsed" /\ Len(Levels) = 3
  /\ Levels[3].cmds = <<"app", "serve", "build">>
  /\ Levels[2].cmds = <<"app", "serve">>
  /\ Levels[1].cmds = <<"app">>

\* the option is declared with optionAnd: its action is a function
IsComputedOpt(e) ==
  e.opt.type = "Opt" /\ e.opt.action \notin {"string", "boolean"}

\* C22: an option declared with optionAnd and given on the command line
\* resolves to its action applied to the string of its last occurrence,
\* inline or as the following positional token alike.
C22_TransformInlineToo ==
  pc = "parsed" =>
    \A d \in 1..Len(Levels) : \A e \in Declared(Levels[d].cmd) :
      (IsComputedOpt(e) /\ Occurrences(d, e) # <<>>) =>
        LET occ == Occurrences(d, e)
        IN /\ e.key \in DOMAIN Levels[d].opts
           /\ Levels[d].opts[e.key] = FnV(occ[Len(occ)].val[1])

\* what an argument makes of a string: the string, or its action's result
Transformed(a, s) == IF a.action = "string" THEN StrV(s) ELSE FnV(s)

HasRepeatingRest(id) ==
  Cmds[id].argsRest # None /\ Cmds[id].argsRest[1].type = "RepeatingArg"

\* C25: at a level with n required arguments and a repeating rest argument
\* a successful parse resolves the arguments to the positionals the level
\* bound, in token order, the first n through the actions of the required
\* arguments and every further one through the action of the rest argument;
\* with n positionals these are the n required values.
C25_RepeatingRest ==
  pc = "parsed" =>
    \A d \in 1..Len(Levels) :
      HasRepeatingRest(Levels[d].cmd) =>
        LET c == Cmds[Levels[d].cmd]
            n == Len(c.args)
            pos == Positionals(d)
            specOf(i) == IF i <= n THEN c.args[i] ELSE c.argsRest[1].arg
        IN /\ Len(pos) >= n
           /\ Levels[d].args = [i \in 1..Len(pos) |->
                                  Transformed(specOf(i), pos[i].val[1])]

\* C25 witness: pack OUT IN... given three positionals has OUT as it is
\* and the two others through IN's action, in order.
C25_Witness ==
  /\ pc = "parsed" /\ root = "pack"
  /\ argv = <<PosTok("a"), PosTok("b"), PosTok("a")>>
  /\ Levels[1].args = <<StrV("a"), FnV("b"), FnV("a")>>

RECURSIVE Consumed(_)
\* the number of tokens the first k iterations took from the queue
Consumed(k) == IF k = 0 THEN 0 ELSE Consumed(k - 1) + log[k].took

\* the number of positionals bound at the depth of event k, up to it
BoundUpTo(k) ==
  Cardinality({j \in 1..k :
                 /\ log[j].depth = log[k].depth
                 /\ log[j].tok.kind = "positional" /\ log[j].outcome = "ok"})

\* C26: on a successful parse the queue is empty and the iterations took
\* the tokens of the input one after the other, each exactly once: a
\* positional as the value of the value option right before it, as the
\* next argument value of the level resolving it, or as the name of the
\* subcommand that resolves all later tokens; an option at the one level
\* resolving it, which declares it.
C26_TokensUsedOnce ==
  pc = "parsed" =>
    /\ tokens = <<>>
    /\ Consumed(Len(log)) = Len(argv)
    /\ Len(Levels) = IF log = <<>> THEN 1
                     ELSE IF log[Len(log)].outcome = "call"
                     THEN log[Len(log)].depth + 1 ELSE log[Len(log)].depth
    /\ \A k \in 1..Len(log) :
         LET ev == log[k]
             s == Consumed(k - 1) + 1
             lvl == Levels[ev.depth]
         IN /\ ev.tok = argv[s]
            /\ ev.took \in {1, 2}
            /\ ev.depth = IF k = 1 THEN 1
                          ELSE IF log[k - 1].outcome = "call"
                          THEN log[k - 1].depth + 1 ELSE log[k - 1].depth
            /\ ev.tok.kind \in {"option", "positional"}
            /\ ev.tok.kind = "option" =>
                 /\ ev.outcome = "ok"
                 /\ ev.tok.name \in KeysAndShortNames(lvl.cmd)
                 /\ ev.took = 2 <=>
                      /\ ev.tok.value = None
                      /\ \E e \in ResolvesTo(lvl.cmd, ev.tok.name) :
                           InnerOpt(e.opt).action # "boolean"
                 /\ ev.took = 2 =>
                      argv[s + 1].kind = "positional" /\ ev.val = argv[s + 1].value
            /\ ev.tok.kind = "positional" =>
                 /\ ev.took = 1
                 /\ \/ /\ ev.outcome = "ok"
                       /\ BoundUpTo(k) <= Len(lvl.args)
                       /\ lvl.args[BoundUpTo(k)] \in
                            {StrV(ev.tok.value[1]), FnV(ev.tok.value[1])}
                    \/ /\ ev.outcome = "call"
                       /\ ev.depth < Len(Levels)
                       /\ Levels[ev.depth + 1].name = ev.tok.value[1]

\* C26 witness: a subcommand name, then a value option and its value, have
\* been used by app and by serve.
C26_Witness ==
  /\ pc = "parsed" /\ root = "app"
  /\ argv = <<PosTok("serve"), OptTok("port", None), PosTok("x")>>
  /\ Len(log) = 2 /\ log[2].took = 2 /\ log[2].depth = 2
  /\ Levels[2].opts["port"] = StrV("x")

\* the calls whose f has been started and has not settled
Started == {c \in Calls : runs[c].pc = "running"}

Waiting == {c \in Calls : runs[c].pc = "waiting"}

C24_EveryRunSettles ==
  /\ \A c \in Calls :
       (runs[c].pc # "idle") ~>
         (runs[c].pc = "done" /\ runs[c].ret # None /\ runs[c].ret = runs[c].outcome)
  /\ [](\A c \in Waiting : size > 0 => runs[c].on \in completed)

\* C24 witness: on a pool of one, three calls are done, one rejected and
\* one thrown.
C24_Witness ==
  /\ made = "pool" /\ capacity = 1
  /\ \A c \in Calls : runs[c].pc = "done"
  /\ \E c \in Calls : runs[c].ret = Some("rejected")
  /\ \E c \in Calls : runs[c].ret = Some("thrown")
  /\ Cardinality(completed) = 3

\* C27: slot.resolve() never throws; while the pool has no free slot the
\* current slot Deferred is not completed; a waiting call awaits the
\* current Deferred or a completed one; and the completion of a task that
\* frees a slot of a full pool completes the Deferred every waiting call
\* awaits.
C27_ResolvedOnce ==
  /\ [](threw = FALSE)
  /\ [](made = "pool" /\ size = 0 => slot \notin completed)
  /\ [](\A c \in Waiting : runs[c].on = slot \/ runs[c].on \in completed)
  /\ [][(size = 0 /\ size' > 0) =>
          \A c \in Waiting : runs[c].on \in completed']_vars

\* C27 witness: a slot Deferred has been completed, the pool is full again
\* and a call waits on the next one.
C27_Witness ==
  /\ made = "pool" /\ size = 0 /\ threw = FALSE
  /\ Cardinality(completed) = 1 /\ slot \notin completed
  /\ \E c \in Waiting : runs[c].on = slot

\* worker w dispatches, in this step, the reply to the i-th request posted
\* to it
Replies(w, i) ==
  /\ w \in 1..Len(workers) /\ i \in 1..Len(workers[w].inbox)
  /\ i \in workers'[w].replied /\ i \notin workers[w].replied

\* C28: the ids submit issues are strictly increasing in the order of the
\* calls, whatever terminate did in between; the Deferred waiting under an
\* id is the unresolved one of the submit that issued the id; a reply
\* handled by onmessage for a waiting id resolves that Deferred, which is
\* never resolved twice, changes no other and removes the id; a reply for
\* an id that is not waiting throws "orphaned result" and resolves nothing.
C28_IdsAndReplies ==
  /\ [](\A i, j \in 1..Len(submits) : i < j => submits[i].id < submits[j].id)
  /\ [](\A n \in 1..Len(submits) : submits[n].resolved <= 1)
  /\ [](\A x \in DOMAIN waiting :
          submits[waiting[x]].id = x /\ submits[waiting[x]].resolved = 0)
  /\ [][\A w \in 1..Len(workers) : \A i \in 1..Len(workers[w].inbox) :
          (Replies(w, i) /\ workers[w].onmessage) =>
            LET x == workers[w].inbox[i]
            IN IF x \in DOMAIN waiting
               THEN /\ submits' = [submits EXCEPT ![waiting[x]].resolved = 1]
                    /\ submits[waiting[x]].id = x
                    /\ x \notin DOMAIN waiting'
                    /\ orphans' = orphans
               ELSE /\ orphans' = orphans \cup {x}
                    /\ submits' = submits /\ waiting' = waiting]_vars
  /\ [][(\E n \in 1..Len(submits) : submits'[n].resolved # submits[n].resolved) =>
          \E w \in 1..Len(workers) : \E i \in 1..Len(workers[w].inbox) :
            Replies(w, i)]_vars

\* C28 witness: after two terminations and two new workers, request 2 was
\* answered when it was no longer waiting and request 3 was resolved.
C28_Witness ==
  /\ Len(workers) = 3 /\ terms.completed = 2
  /\ orphans = {2}
  /\ Len(submits) = 3 /\ submits[3].id = 3 /\ submits[3].resolved = 1
  /\ submits[2].resolved = 0

\* C29: whenever a request is posted to a worker, onmessage is installed
\* on that worker already, whether create returned the worker or a promise
\* of it.
C29_HandlerBeforePost ==
  /\ [](\A w \in 1..Len(workers) :
          workers[w].inbox # <<>> => workers[w].onmessage)
  /\ [][\A w \in 1..Len(workers) :
          Len(workers'[w].inbox) > Len(workers[w].inbox) =>
            workers[w].onmessage]_vars

\* C29 witness: a worker that create promised has been posted the
\* requests of two submits made before the promise was fulfilled.
C29_Witness ==
  \E w \in 1..Len(workers) :
    /\ workers[w].promised /\ workers[w].onmessage
    /\ Len(workers[w].inbox) = 2

\* the ids of the submits that await worker w, in the order of the calls
IdsFor(w) ==
  LET Test(r) == r.w = w
      mine == SelectSeq(submits, Test)
  IN [i \in 1..Len(mine) |-> mine[i].id]

\* C30: create is not called before the first submit, and at most once
\* more than terminate has completed; submits with no completed terminate
\* between them await the same worker; and the requests posted to a worker
\* are those of the submits awaiting it, in the order of the calls.
C30_CreateOnce ==
  /\ submits = <<>> => workers = <<>>
  /\ Len(workers) <= terms.completed + 1
  /\ \A i, j \in 1..Len(submits) :
       submits[i].after = submits[j].after => submits[i].w = submits[j].w
  /\ \A w \in 1..Len(workers) :
       /\ Len(workers[w].inbox) <= Len(IdsFor(w))
       /\ workers[w].inbox = SubSeq(IdsFor(w), 1, Len(workers[w].inbox))

\* C30 witness: three submits made while the promised worker was pending
\* have been posted to the one worker created, in order.
C30_Witness ==
  /\ Len(workers) = 1 /\ workers[1].promised
  /\ workers[1].inbox = <<1, 2, 3>>

\* the requests that were waiting when a terminate completed are no longer
\* waiting and their Deferred has not been resolved (nothing rejects it);
\* every request still waiting was submitted after the last terminate that
\* completed, and every older unresolved request is one terminate dropped
DroppedNeverSettle ==
  /\ \A x \in DOMAIN waiting :
       x \notin terms.dropped /\ submits[waiting[x]].after = terms.completed
  /\ \A n \in 1..Len(submits) :
       /\ submits[n].id \in terms.dropped => submits[n].resolved = 0
       /\ (submits[n].after < terms.completed /\ submits[n].resolved = 0) =>
            submits[n].id \in terms.dropped

\* a request submitted while a terminate was awaiting the worker is posted
\* only to a worker that has been terminated already, and is dropped by
\* the next terminate that completes
LateSubmitPostedToTerminated ==
  \A n \in 1..Len(submits) :
    submits[n].during =>
      /\ submits[n].after < terms.completed => submits[n].id \in terms.dropped
      /\ \A w \in 1..Len(workers) : \A i \in 1..Len(workers[w].inbox) :
           workers[w].inbox[i] = submits[n].id => workers[w].terminated

\* C31: a request still waiting when terminate runs is dropped: once
\* terminate has completed the waiting set is empty and the promise of that
\* submit is never resolved or rejected; this includes a submit issued
\* while terminate is awaiting the worker, whose request is then posted to
\* the worker terminate has already terminated.
C31_DroppedByTerminate ==
  /\ DroppedNeverSettle
  /\ LateSubmitPostedToTerminated

\* the divergence of C31: a second terminate resumed after a submit made a
\* new worker has dropped the request of that submit without terminating
\* its worker, which was then posted the request and answered it
C31_PostedToLiveWorker ==
  \E n \in 1..Len(submits) : \E w \in 1..Len(workers) :
    /\ submits[n].during /\ submits[n].id \in terms.dropped
    /\ submits[n].resolved = 0
    /\ workers[w].inbox = <<submits[n].id>> /\ ~workers[w].terminated
    /\ submits[n].id \in orphans
    /\ worker = 0 /\ terms.completed = terms.made

====
